---- MODULE Spec2Model ----
(***************************************************************************)
(* HashGate Python sample client (src/samples/Sample.Python/hmac_client.py) *)
(*                                                                         *)
(* Text is a sequence of symbols.  A symbol is a TLA+ string that stands   *)
(* for one character ("/", ";", "a") or for an indivisible run of          *)
(* characters that no operation of the client looks inside ("https",       *)
(* "localhost", a base64 text).  Bytes are symbols too.                    *)
(***************************************************************************)
EXTENDS Integers, Sequences, FiniteSets, TLC

(***************************************************************************)
(* Bounds of the model.                                                    *)
(***************************************************************************)
\* longest header-value / header-name list given to the canonicalizer
MaxHeaders == 2
\* number of clock advances (half seconds) a behaviour may take
MaxTicks == 2

(***************************************************************************)
(* Python values.                                                          *)
(***************************************************************************)
\* Optional[...]: None, or a present value
NoneVal == [some |-> FALSE, val |-> <<>>]
Some(v) == [some |-> TRUE, val |-> v]
\* Python truthiness of an Optional[str] / Optional[dict]: None, "" and {}
\* are falsy
Truthy(o) == o.some /\ o.val # <<>>

\* an empty dict
EmptyDict == [n \in {} |-> <<>>]

RECURSIVE Join(_, _)
\* sep.join(parts)
Join(sep, parts) ==
  IF parts = <<>> THEN <<>>
  ELSE IF Len(parts) = 1 THEN parts[1]
  ELSE parts[1] \o sep \o Join(sep, Tail(parts))

UpperTable ==
  ("g" :> "G") @@ ("e" :> "E") @@ ("t" :> "T") @@ ("p" :> "P") @@
  ("o" :> "O") @@ ("s" :> "S") @@ ("a" :> "A") @@ ("b" :> "B") @@
  ("q" :> "Q") @@ ("h" :> "H") @@ ("v" :> "V") @@ ("k" :> "K")

UpperChar(c) == IF c \in DOMAIN UpperTable THEN UpperTable[c] ELSE c
LowerChar(c) ==
  IF \E l \in DOMAIN UpperTable : UpperTable[l] = c
  THEN CHOOSE l \in DOMAIN UpperTable : UpperTable[l] = c
  ELSE c

\* str.upper()
Upper(s) == [i \in 1..Len(s) |-> UpperChar(s[i])]
\* str.lower()
Lower(s) == [i \in 1..Len(s) |-> LowerChar(s[i])]

\* the index of the first symbol of s, at or after position from, that is
\* in cs; 0 when there is none (str.find, 1-based)
FindFrom(s, cs, from) ==
  IF \E i \in from..Len(s) : s[i] \in cs
  THEN CHOOSE i \in from..Len(s) :
         s[i] \in cs /\ \A j \in from..(i - 1) : s[j] \notin cs
  ELSE 0
Find(s, cs) == FindFrom(s, cs, 1)

\* the index of the last symbol of s that is in cs; 0 when there is none
\* (str.rfind, 1-based)
RFind(s, cs) ==
  IF \E i \in 1..Len(s) : s[i] \in cs
  THEN CHOOSE i \in 1..Len(s) :
         s[i] \in cs /\ \A j \in (i + 1)..Len(s) : s[j] \notin cs
  ELSE 0

\* sub in s (substring test)
Contains(s, sub) ==
  \E i \in 1..(Len(s) - Len(sub) + 1) : SubSeq(s, i, i + Len(sub) - 1) = sub

RECURSIVE RStrip(_, _)
\* s.rstrip(c)
RStrip(s, c) ==
  IF s # <<>> /\ s[Len(s)] = c THEN RStrip(SubSeq(s, 1, Len(s) - 1), c) ELSE s

RECURSIVE Digits(_)
\* the decimal digits of a natural number
Digits(n) ==
  IF n < 10 THEN <<ToString(n)>> ELSE Digits(n \div 10) \o <<ToString(n % 10)>>

\* str(i) for an int
StrInt(i) == IF i < 0 THEN <<"-">> \o Digits(-i) ELSE Digits(i)

(***************************************************************************)
(* Encodings and hashes.  SHA-256 and HMAC-SHA256 are injective here: a    *)
(* digest is the record of what was hashed.  base64 of a digest is one     *)
(* symbol (its alphabet has no ";", "&", "=" delimiter role, no newline).  *)
(***************************************************************************)
\* the UTF-8 bytes of one symbol
Utf8Char(c) == IF c = "U+00E9" THEN <<"xC3", "xA9">> ELSE <<c>>

RECURSIVE Utf8(_)
\* str.encode('utf-8')
Utf8(s) == IF s = <<>> THEN <<>> ELSE Utf8Char(Head(s)) \o Utf8(Tail(s))

\* hashlib.sha256(data).digest()
Sha256(data) == [alg |-> "sha256", key |-> <<>>, msg |-> data]
\* hmac.new(key, msg, hashlib.sha256).digest()
HmacSha256(k, data) == [alg |-> "hmac-sha256", key |-> k, msg |-> data]

\* HmacClient.EMPTY_CONTENT_HASH
EMPTY_CONTENT_HASH == <<"47DEQpj8HBSa+/TImW+5JCeuQeRkm5NMpJWZG3hSuFU=">>

\* base64.b64encode(digest).decode('utf-8'); the digest of the empty input
\* encodes to the well-known text
B64Encode(digest) ==
  IF digest = Sha256(<<>>) THEN EMPTY_CONTENT_HASH
  ELSE <<"b64:" \o ToString(<<digest.alg, digest.key, digest.msg>>)>>

(***************************************************************************)
(* Class constants.                                                        *)
(***************************************************************************)
DEFAULT_SCHEME_NAME == <<"HMAC">>
TIME_STAMP_HEADER_NAME == <<"x-timestamp">>
CONTENT_HASH_HEADER_NAME == <<"x-content-sha256">>
DEFAULT_SIGNED_HEADERS ==
  <<(<<"host">>), TIME_STAMP_HEADER_NAME, CONTENT_HASH_HEADER_NAME>>

(***************************************************************************)
(* The methods of HmacClient that compute without reading the clock.       *)
(***************************************************************************)
CreateStringToSignUpperAll(method, path_and_query, header_values) ==
  Upper(method \o <<"\n">> \o path_and_query \o <<"\n">>
        \o Join(<<";">>, header_values))

\* a canonical string in which the ";" inside a header value is escaped
CreateStringToSignEscaped(method, path_and_query, header_values) ==
  Upper(method) \o <<"\n">> \o path_and_query \o <<"\n">>
    \o Join(<<";">>,
            [i \in 1..Len(header_values) |->
               [j \in 1..Len(header_values[i]) |->
                  IF header_values[i][j] = ";" THEN "%3B"
                  ELSE header_values[i][j]]])

\* HmacClient.create_string_to_sign
CreateStringToSign(method, path_and_query, header_values) ==
  LET upper_method == Upper(method)
      header_string == Join(<<";">>, header_values)
  IN  upper_method \o <<"\n">> \o path_and_query \o <<"\n">> \o header_string

\* HmacClient.generate_signature, with self.secret passed in
GenerateSignature(secret_bytes, string_to_sign) ==
  B64Encode(HmacSha256(secret_bytes, Utf8(string_to_sign)))

GenerateAuthorizationHeaderSigFirst(client_id, signed_headers, signature) ==
  DEFAULT_SCHEME_NAME \o <<" ", "Client", "=">> \o client_id
    \o <<"&", "Signature", "=">> \o signature
    \o <<"&", "SignedHeaders", "=">> \o Join(<<";">>, signed_headers)

\* HmacClient.generate_authorization_header, with self.client passed in
GenerateAuthorizationHeader(client_id, signed_headers, signature) ==
  LET signed_headers_string == Join(<<";">>, signed_headers)
  IN  DEFAULT_SCHEME_NAME \o <<" ", "Client", "=">> \o client_id
        \o <<"&", "SignedHeaders", "=">> \o signed_headers_string
        \o <<"&", "Signature", "=">> \o signature

CalculateContentHashOfStr(content) ==
  B64Encode(Sha256(Utf8(IF content.some THEN content.val ELSE <<"None">>)))

\* HmacClient.calculate_content_hash
CalculateContentHash(content) ==
  IF ~Truthy(content) THEN EMPTY_CONTENT_HASH
  ELSE LET content_bytes == Utf8(content.val)
           hash_digest == Sha256(content_bytes)
       IN  B64Encode(hash_digest)

(***************************************************************************)
(* urllib.parse.urlparse, as create_authenticated_headers uses it.         *)
(***************************************************************************)
\* the symbols allowed in a URL scheme (letters, digits, "+", "-", ".")
SchemeChars ==
  {"https", "http", "h", "a", "b", "api", "localhost", "evil", "example",
   "com", "1", "7134", "127.0.0.1", ".", "+", "-"}
\* urllib.parse.uses_params
UsesParams == {<<>>, <<"http">>, <<"https">>}
\* the characters urlsplit removes from a URL before it splits it
UnsafeUrlChars == {"\t", "\r", "\n"}

\* urllib.parse._splitparams
SplitParams(url) ==
  LET slash == RFind(url, {"/"})
      i == IF slash > 0 THEN FindFrom(url, {";"}, slash) ELSE Find(url, {";"})
  IN  IF i = 0 THEN [path |-> url, params |-> <<>>]
      ELSE [path |-> SubSeq(url, 1, i - 1),
            params |-> SubSeq(url, i + 1, Len(url))]

\* s split at position i (0: not split): the text before, the text after
SplitAt(s, i) ==
  IF i = 0 THEN [head |-> s, tail |-> <<>>]
  ELSE [head |-> SubSeq(s, 1, i - 1), tail |-> SubSeq(s, i + 1, Len(s))]

\* urlsplit: the scheme, lower-cased, is what precedes the first ":" when
\* that is a non-empty run of scheme characters
SplitScheme(url) ==
  LET i == Find(url, {":"})
  IN  IF i > 1 /\ \A j \in 1..(i - 1) : url[j] \in SchemeChars
      THEN [scheme |-> Lower(SubSeq(url, 1, i - 1)),
            rest |-> SubSeq(url, i + 1, Len(url))]
      ELSE [scheme |-> <<>>, rest |-> url]

\* urlsplit and urllib.parse._splitnetloc: after "//" the netloc runs to the
\* first "/", "?" or "#"
SplitNetloc(url) ==
  LET d == FindFrom(url, {"/", "?", "#"}, 3)
  IN  IF ~(Len(url) >= 2 /\ url[1] = "/" /\ url[2] = "/")
      THEN [netloc |-> <<>>, rest |-> url]
      ELSE IF d = 0 THEN [netloc |-> SubSeq(url, 3, Len(url)), rest |-> <<>>]
      ELSE [netloc |-> SubSeq(url, 3, d - 1), rest |-> SubSeq(url, d, Len(url))]

\* urllib.parse.urlsplit
UrlSplit(raw) ==
  LET s == SplitScheme(SelectSeq(raw, LAMBDA c : c \notin UnsafeUrlChars))
      n == SplitNetloc(s.rest)
      f == SplitAt(n.rest, Find(n.rest, {"#"}))
      q == SplitAt(f.head, Find(f.head, {"?"}))
  IN  [scheme |-> s.scheme, netloc |-> n.netloc, path |-> q.head,
       params |-> <<>>, query |-> q.tail, fragment |-> f.tail]

\* urllib.parse.urlparse: urlsplit, then the ;params of the last path
\* segment are split off the path
UrlParse(raw) ==
  LET s == UrlSplit(raw)
      sp == IF s.scheme \in UsesParams /\ Find(s.path, {";"}) > 0
            THEN SplitParams(s.path)
            ELSE [path |-> s.path, params |-> <<>>]
  IN  [scheme |-> s.scheme, netloc |-> s.netloc, path |-> sp.path,
       params |-> sp.params, query |-> s.query, fragment |-> s.fragment]

\* url.path + ("?" + url.query if url.query else "")
PathAndQuery(url) ==
  url.path \o (IF url.query # <<>> THEN <<"?">> \o url.query ELSE <<>>)

(***************************************************************************)
(* json.dumps of a dict of strings (a sequence of key/value pairs, in      *)
(* insertion order), with the default separators and ensure_ascii.         *)
(***************************************************************************)
JsonEscapeChar(c) ==
  IF c = "\"" THEN <<"\\", "\"">>
  ELSE IF c = "\\" THEN <<"\\", "\\">>
  ELSE IF c = "U+00E9" THEN <<"\\u00e9">>
  ELSE <<c>>

RECURSIVE JsonEscape(_)
JsonEscape(s) ==
  IF s = <<>> THEN <<>> ELSE JsonEscapeChar(Head(s)) \o JsonEscape(Tail(s))

JsonString(s) == <<"\"">> \o JsonEscape(s) \o <<"\"">>

\* json.dumps(d)
JsonDumps(d) ==
  <<"{">>
    \o Join(<<",", " ">>,
            [i \in 1..Len(d) |->
               JsonString(d[i].k) \o <<":", " ">> \o JsonString(d[i].v)])
    \o <<"}">>

(***************************************************************************)
(* Inputs the model draws from.                                            *)
(***************************************************************************)
\* constructor arguments (client, secret, base_url)
CtorArgs ==
  { [client |-> <<"TestClient">>, secret |-> <<"test-secret">>,
     base_url |-> <<"https", ":", "/", "/", "api", ".", "example", ".", "com">>],
    [client |-> <<"TestClient">>, secret |-> <<"other-secret">>,
     base_url |-> <<"https", ":", "/", "/", "api", ".", "example", ".", "com", "/">>],
    [client |-> <<"a", "&", "b", "=", "1">>, secret |-> <<"test-secret">>,
     base_url |-> <<"https", ":", "/", "/", "localhost", ":", "7134">>],
    [client |-> <<"TestClient">>, secret |-> <<"test-secret">>,
     base_url |-> <<"https", ":", "/", "/", "localhost", ".", "evil", ".", "com">>],
    [client |-> <<"TestClient">>, secret |-> <<"test-secret">>,
     base_url |-> <<"https", ":", "/", "/", "h", ";", "1">>] }

Methods == { <<"G", "E", "T">>, <<"g", "e", "t">>, <<"P", "o", "s", "t">> }

\* the path argument of request() and create_authenticated_headers()
Paths ==
  { <<"/">>,
    <<"/", "a">>,
    <<"/", "A", "/", "b">>,
    <<"/", "a", "?", "q", "=", "1">>,
    <<"/", "a", ";", "v">>,
    <<"/", "a", "#", "f">> }

\* header values and header names: plain ones, and ones that hold the
\* delimiters of the canonical string and of the Authorization header
HeaderTexts ==
  { <<"a">>, <<"b", ";", "c">>, <<"x", "=", "1", "&", "y">>,
    <<"a", ";", "b">>, <<"c">> }
HeaderLists == UNION { [1..n -> HeaderTexts] : n \in 0..MaxHeaders }

Signatures == { <<"test-signature">>, <<"s", "+", "/", "=">> }

\* the content argument of calculate_content_hash() and
\* create_authenticated_headers()
Contents ==
  { NoneVal, Some(<<>>),
    Some(<<"{", "\"", "test", "\"", ":", " ", "\"", "data", "\"", "}">>),
    Some(<<"U+00E9">>) }

\* the json_data argument of request(), post() and put()
JsonDatas ==
  { NoneVal, Some(<<>>),
    Some(<<[k |-> <<"key">>, v |-> <<"value">>]>>),
    Some(<<[k |-> <<"k">>, v |-> <<"U+00E9", "\"">>],
           [k |-> <<"a">>, v |-> <<>>]>>) }

\* what the transport may answer
Responses == { "200", "401" }

\* the reading of time.time() when the client is constructed, in half
\* seconds (19 is 9.5 s)
ClockStart == 19
NumThreads == 2
Threads == 1..NumThreads
\* the thread of a sequential program
Main == CHOOSE t \in Threads : \A u \in Threads : t <= u

(***************************************************************************)
(* State.                                                                  *)
(***************************************************************************)
VARIABLES
  client,     \* self.client
  secret,     \* self.secret (bytes)
  base_url,   \* self.base_url
  verify,     \* self.session.verify
  clock,      \* time.time(), in half seconds
  th,         \* per thread: the call in progress and its locals
  rx          \* the verifier: the request it received and its verdict

vars == <<client, secret, base_url, verify, clock, th, rx>>
fields == <<client, secret, base_url, verify>>

\* a thread that is in no call
Idle ==
  [pc |-> "idle", op |-> "none", via |-> "none",
   method |-> <<>>, path |-> <<>>, json_data |-> NoneVal, content |-> NoneVal,
   host |-> <<>>, path_and_query |-> <<>>, now |-> 0, timestamp |-> <<>>,
   content_hash |-> <<>>, header_values |-> <<>>, signed_headers |-> <<>>,
   string_to_sign |-> <<>>, signature |-> <<>>, headers |-> EmptyDict,
   sent |-> <<>>, result |-> <<>>, response |-> "none"]

\* no request has reached the verifier
NoRequest ==
  [state |-> "none", method |-> <<>>, path_and_query |-> <<>>,
   headers |-> EmptyDict, body |-> <<>>, verdict |-> "none"]

\* HmacClient.__init__(client, secret, base_url), the arguments drawn from
\* args
Construct(args) ==
  \E a \in args :
    /\ client = a.client
    /\ secret = Utf8(a.secret)
    /\ base_url = RStrip(a.base_url, "/")
    /\ verify = ~(\/ Contains(a.base_url, <<"localhost">>)
                  \/ Contains(a.base_url, <<"127.0.0.1">>))
    /\ clock = ClockStart
    /\ th = [t \in Threads |-> Idle]
    /\ rx = NoRequest

Init == Construct(CtorArgs)

\* the wall clock advances
Tick ==
  /\ clock < ClockStart + MaxTicks
  /\ clock' = clock + 1
  /\ UNCHANGED <<fields, th, rx>>

(***************************************************************************)
(* Direct calls of the helper methods.                                     *)
(***************************************************************************)
\* client.create_string_to_sign(method, path_and_query, header_values)
CallCreateStringToSign(t, method, path_and_query, header_values) ==
  /\ th[t].pc = "idle"
  /\ th' = [th EXCEPT ![t] =
       [Idle EXCEPT !.pc = "done", !.op = "create_string_to_sign",
          !.method = method, !.path_and_query = path_and_query,
          !.header_values = header_values,
          !.result = CreateStringToSign(method, path_and_query, header_values)]]
  /\ UNCHANGED <<fields, clock, rx>>

\* client.generate_signature(string_to_sign)
CallGenerateSignature(t, string_to_sign) ==
  /\ th[t].pc = "idle"
  /\ th' = [th EXCEPT ![t] =
       [Idle EXCEPT !.pc = "done", !.op = "generate_signature",
          !.string_to_sign = string_to_sign,
          !.result = GenerateSignature(secret, string_to_sign)]]
  /\ UNCHANGED <<fields, clock, rx>>

\* client.generate_authorization_header(signed_headers, signature)
CallGenerateAuthorizationHeader(t, signed_headers, signature) ==
  /\ th[t].pc = "idle"
  /\ th' = [th EXCEPT ![t] =
       [Idle EXCEPT !.pc = "done", !.op = "generate_authorization_header",
          !.signed_headers = signed_headers, !.signature = signature,
          !.result = GenerateAuthorizationHeader(client, signed_headers, signature)]]
  /\ UNCHANGED <<fields, clock, rx>>

\* client.calculate_content_hash(content)
CallCalculateContentHash(t, content) ==
  /\ th[t].pc = "idle"
  /\ th' = [th EXCEPT ![t] =
       [Idle EXCEPT !.pc = "done", !.op = "calculate_content_hash",
          !.content = content, !.result = CalculateContentHash(content)]]
  /\ UNCHANGED <<fields, clock, rx>>

\* the caller takes the returned value; the thread is free for another call
Return(t) ==
  /\ th[t].pc = "done"
  /\ th' = [th EXCEPT ![t] = Idle]
  /\ UNCHANGED <<fields, clock, rx>>

(***************************************************************************)
(* create_authenticated_headers and request, statement by statement: a     *)
(* thread may be preempted between any two of these steps.                 *)
(***************************************************************************)
\* a serialization of every dictionary, the empty one too
SerializeJsonIfGiven(json_data) ==
  IF json_data.some THEN Some(JsonDumps(json_data.val)) ELSE NoneVal

\* json.dumps(json_data) if json_data else None
SerializeJson(json_data) ==
  IF Truthy(json_data) THEN Some(JsonDumps(json_data.val)) ELSE NoneVal

\* the clock rounded to the nearest second
TimestampRounded(now) == StrInt((now + 1) \div 2)

\* str(int(time.time())), the clock counted in half seconds
Timestamp(now) == StrInt(now \div 2)

HeaderValuesSwapped(host, timestamp, content_hash) ==
  <<timestamp, host, content_hash>>

\* header_values = [host, timestamp, content_hash]
HeaderValues(host, timestamp, content_hash) == <<host, timestamp, content_hash>>

BuildHeadersTypeIfGiven(host, timestamp, content_hash, authorization_header, content) ==
  LET headers == (<<"Host">> :> host)
                 @@ (TIME_STAMP_HEADER_NAME :> timestamp)
                 @@ (CONTENT_HASH_HEADER_NAME :> content_hash)
                 @@ (<<"Authorization">> :> authorization_header)
  IN  IF content.some
      THEN (<<"Content-Type">> :> <<"application/json">>) @@ headers
      ELSE headers

\* the headers dict of create_authenticated_headers
BuildHeaders(host, timestamp, content_hash, authorization_header, content) ==
  LET headers == (<<"Host">> :> host)
                 @@ (TIME_STAMP_HEADER_NAME :> timestamp)
                 @@ (CONTENT_HASH_HEADER_NAME :> content_hash)
                 @@ (<<"Authorization">> :> authorization_header)
  IN  IF Truthy(content)
      THEN (<<"Content-Type">> :> <<"application/json">>) @@ headers
      ELSE headers

\* create_authenticated_headers run in one piece, with the fields of the
\* client and the clock reading passed in
CreateAuthenticatedHeaders(client_id, secret_bytes, base, method, path, content, now) ==
  LET url == UrlParse(base \o path)
      content_hash == CalculateContentHash(content)
      header_values == HeaderValues(url.netloc, Timestamp(now), content_hash)
      signature ==
        GenerateSignature(secret_bytes,
          CreateStringToSign(method, PathAndQuery(url), header_values))
  IN  BuildHeaders(url.netloc, Timestamp(now), content_hash,
                   GenerateAuthorizationHeader(client_id, DEFAULT_SIGNED_HEADERS,
                                               signature),
                   content)

\* client.create_authenticated_headers(method, path, content) is entered
CallCreateAuthenticatedHeaders(t, method, path, content) ==
  /\ th[t].pc = "idle"
  /\ th' = [th EXCEPT ![t] =
       [Idle EXCEPT !.pc = "cah_start", !.op = "create_authenticated_headers",
          !.via = "create_authenticated_headers",
          !.method = method, !.path = path, !.content = content]]
  /\ UNCHANGED <<fields, clock, rx>>

\* client.request(method, path, json_data) is entered and serializes the body
CallRequest(t, via, method, path, json_data) ==
  /\ th[t].pc = "idle"
  /\ th' = [th EXCEPT ![t] =
       [Idle EXCEPT !.pc = "cah_start", !.op = "request", !.via = via,
          !.method = method, !.path = path, !.json_data = json_data,
          !.content = SerializeJson(json_data)]]
  /\ UNCHANGED <<fields, clock, rx>>

\* client.get(path)
CallGet(t, path) == CallRequest(t, "get", <<"G", "E", "T">>, path, NoneVal)
\* client.post(path, json_data)
CallPost(t, path, json_data) ==
  CallRequest(t, "post", <<"P", "O", "S", "T">>, path, json_data)
\* client.put(path, json_data)
CallPut(t, path, json_data) ==
  CallRequest(t, "put", <<"P", "U", "T">>, path, json_data)
\* client.delete(path)
CallDelete(t, path) ==
  CallRequest(t, "delete", <<"D", "E", "L", "E", "T", "E">>, path, NoneVal)

ParseUrlOnSelf(t) ==
  /\ th[t].pc = "cah_start"
  /\ base_url' = base_url \o th[t].path
  /\ LET url == UrlParse(base_url')
     IN  th' = [th EXCEPT ![t].pc = "cah_parsed",
                          ![t].host = url.netloc,
                          ![t].path_and_query = PathAndQuery(url)]
  /\ UNCHANGED <<client, secret, verify, clock, rx>>

\* url = urlparse(self.base_url + path); host; path_and_query
ParseUrl(t) ==
  /\ th[t].pc = "cah_start"
  /\ LET url == UrlParse(base_url \o th[t].path)
     IN  th' = [th EXCEPT ![t].pc = "cah_parsed",
                          ![t].host = url.netloc,
                          ![t].path_and_query = PathAndQuery(url)]
  /\ UNCHANGED <<fields, clock, rx>>

\* timestamp = str(int(time.time()))
ReadClock(t) ==
  /\ th[t].pc = "cah_parsed"
  /\ th' = [th EXCEPT ![t].pc = "cah_stamped",
                      ![t].now = clock,
                      ![t].timestamp = Timestamp(clock)]
  /\ UNCHANGED <<fields, clock, rx>>

\* content_hash, header_values and string_to_sign
Canonicalize(t) ==
  /\ th[t].pc = "cah_stamped"
  /\ LET content_hash == CalculateContentHash(th[t].content)
         header_values == HeaderValues(th[t].host, th[t].timestamp, content_hash)
     IN  th' = [th EXCEPT ![t].pc = "cah_canon",
                          ![t].content_hash = content_hash,
                          ![t].header_values = header_values,
                          ![t].string_to_sign =
                            CreateStringToSign(th[t].method,
                                               th[t].path_and_query,
                                               header_values)]
  /\ UNCHANGED <<fields, clock, rx>>

\* signature = self.generate_signature(string_to_sign)
Sign(t) ==
  /\ th[t].pc = "cah_canon"
  /\ th' = [th EXCEPT ![t].pc = "cah_signed",
                      ![t].signature =
                        GenerateSignature(secret, th[t].string_to_sign)]
  /\ UNCHANGED <<fields, clock, rx>>

AuthorizeFreshTimestamp(t) ==
  /\ th[t].pc = "cah_signed"
  /\ LET authorization_header ==
           GenerateAuthorizationHeader(client, DEFAULT_SIGNED_HEADERS,
                                       th[t].signature)
     IN  th' = [th EXCEPT
           ![t].pc = IF th[t].op = "request" THEN "req_signed" ELSE "done",
           ![t].signed_headers = DEFAULT_SIGNED_HEADERS,
           ![t].headers = BuildHeaders(th[t].host, Timestamp(clock),
                                       th[t].content_hash,
                                       authorization_header, th[t].content)]
  /\ UNCHANGED <<fields, clock, rx>>

\* the Authorization header and the headers dict; create_authenticated_headers
\* returns
Authorize(t) ==
  /\ th[t].pc = "cah_signed"
  /\ LET authorization_header ==
           GenerateAuthorizationHeader(client, DEFAULT_SIGNED_HEADERS,
                                       th[t].signature)
     IN  th' = [th EXCEPT
           ![t].pc = IF th[t].op = "request" THEN "req_signed" ELSE "done",
           ![t].signed_headers = DEFAULT_SIGNED_HEADERS,
           ![t].headers = BuildHeaders(th[t].host, th[t].timestamp,
                                       th[t].content_hash,
                                       authorization_header, th[t].content)]
  /\ UNCHANGED <<fields, clock, rx>>

TransportCallReserialized(method, url, headers, content) ==
  [method |-> Upper(method), url |-> url, headers |-> headers,
   data |-> IF content.some
            THEN Some(SelectSeq(content.val, LAMBDA c : c # " "))
            ELSE NoneVal]

\* what request() hands to self.session.request
TransportCall(method, url, headers, content) ==
  [method |-> Upper(method), url |-> url, headers |-> headers, data |-> content]

\* a request that is sent again when the answer is 401
DispatchWithRetry(t, response) ==
  /\ th[t].pc = "req_signed"
  /\ LET call == TransportCall(th[t].method, base_url \o th[t].path,
                               th[t].headers, th[t].content)
     IN  th' = [th EXCEPT
           ![t].pc = "done",
           ![t].sent = IF response = "401" THEN th[t].sent \o <<call, call>>
                       ELSE Append(th[t].sent, call),
           ![t].response = response,
           ![t].result = response]
  /\ UNCHANGED <<fields, clock, rx>>

\* url = self.base_url + path; response = self.session.request(...);
\* return response
Dispatch(t, response) ==
  /\ th[t].pc = "req_signed"
  /\ th' = [th EXCEPT
       ![t].pc = "done",
       ![t].sent = Append(th[t].sent,
                          TransportCall(th[t].method, base_url \o th[t].path,
                                        th[t].headers, th[t].content)),
       ![t].response = response,
       ![t].result = response]
  /\ UNCHANGED <<fields, clock, rx>>

\* one step of a call in progress
Step(t) ==
  \/ ParseUrl(t)
  \/ ReadClock(t)
  \/ Canonicalize(t)
  \/ Sign(t)
  \/ Authorize(t)
  \/ \E r \in Responses : Dispatch(t, r)
  \/ Return(t)

\* a sequential program: one caller uses every public method of the client;
\* a call starts when the caller is in no call
Next ==
  \/ Tick
  \/ /\ th[Main].pc = "idle"
     /\ \E m \in Methods, p \in Paths, hs \in HeaderLists :
          CallCreateStringToSign(Main, m, p, hs)
  \/ /\ th[Main].pc = "idle"
     /\ \E m \in Methods, p \in Paths, hs \in HeaderLists :
          CallGenerateSignature(Main, CreateStringToSign(m, p, hs))
  \/ /\ th[Main].pc = "idle"
     /\ \E ns \in HeaderLists, sig \in Signatures :
          CallGenerateAuthorizationHeader(Main, ns, sig)
  \/ /\ th[Main].pc = "idle"
     /\ \E c \in Contents : CallCalculateContentHash(Main, c)
  \/ /\ th[Main].pc = "idle"
     /\ \E m \in Methods, p \in Paths, c \in Contents :
          CallCreateAuthenticatedHeaders(Main, m, p, c)
  \/ /\ th[Main].pc = "idle"
     /\ \E m \in Methods, p \in Paths, d \in JsonDatas :
          CallRequest(Main, "request", m, p, d)
  \/ /\ th[Main].pc = "idle"
     /\ \E p \in Paths : CallGet(Main, p)
  \/ /\ th[Main].pc = "idle"
     /\ \E p \in Paths, d \in JsonDatas : CallPost(Main, p, d)
  \/ /\ th[Main].pc = "idle"
     /\ \E p \in Paths, d \in JsonDatas : CallPut(Main, p, d)
  \/ /\ th[Main].pc = "idle"
     /\ \E p \in Paths : CallDelete(Main, p)
  \/ Step(Main)

Spec == Init /\ [][Next]_vars

(***************************************************************************)
(* Threads that share one client and sign in parallel.                     *)
(***************************************************************************)
ParCtorArgs ==
  { [client |-> <<"TestClient">>, secret |-> <<"test-secret">>,
     base_url |-> <<"https", ":", "/", "/", "api", ".", "example", ".", "com">>] }
ParMethods == { <<"g", "e", "t">> }
ParPaths == { <<"/", "a", "?", "q", "=", "1">> }
ParDicts == { Some(<<[k |-> <<"key">>, v |-> <<"value">>]>>) }

InitPar == Construct(ParCtorArgs)

\* one step of a call in progress, the transport answering 200
StepPar(t) ==
  \/ ParseUrl(t)
  \/ ReadClock(t)
  \/ Canonicalize(t)
  \/ Sign(t)
  \/ Authorize(t)
  \/ Dispatch(t, "200")
  \/ Return(t)

NextPar ==
  \/ Tick
  \/ \E t \in Threads :
       \/ \E m \in ParMethods, p \in ParPaths :
            CallCreateAuthenticatedHeaders(t, m, p, NoneVal)
       \/ \E p \in ParPaths, d \in ParDicts : CallPost(t, p, d)
       \/ StepPar(t)

SpecPar == InitPar /\ [][NextPar]_vars

(***************************************************************************)
(* The verifier (the server side of the scheme), as far as the properties  *)
(* below need it: how it reads a signed request.                           *)
(***************************************************************************)
RECURSIVE SplitOn(_, _)
\* s.split(sep)
SplitOn(s, sep) ==
  LET i == Find(s, {sep})
  IN  IF i = 0 THEN <<s>>
      ELSE <<SubSeq(s, 1, i - 1)>> \o SplitOn(SubSeq(s, i + 1, Len(s)), sep)

\* the value of field name in the "&"-separated name=value parts
AuthField(parts, name) ==
  LET idx == {i \in 1..Len(parts) :
                Len(parts[i]) >= 2 /\ parts[i][1] = name /\ parts[i][2] = "="}
      first == CHOOSE i \in idx : \A j \in idx : i <= j
  IN  IF idx = {} THEN NoneVal
      ELSE Some(SubSeq(parts[first], 3, Len(parts[first])))

\* Parse state: "HMAC Client=<id>&SignedHeaders=<h1;h2;...>&Signature=<sig>"
ParseAuthorization(auth) ==
  LET scheme_ok == Len(auth) >= 2 /\ <<auth[1]>> = DEFAULT_SCHEME_NAME
                   /\ auth[2] = " "
      parts == IF scheme_ok THEN SplitOn(SubSeq(auth, 3, Len(auth)), "&")
               ELSE <<>>
      c == AuthField(parts, "Client")
      h == AuthField(parts, "SignedHeaders")
      g == AuthField(parts, "Signature")
  IN  [ok |-> scheme_ok /\ c.some /\ h.some /\ g.some,
       client |-> c.val,
       signed_headers |-> IF h.some THEN SplitOn(h.val, ";") ELSE <<>>,
       signature |-> g.val]

\* header names are matched without regard to case
HeaderNameKey(name) ==
  IF name = <<"Host">> THEN <<"host">>
  ELSE IF name = <<"Authorization">> THEN <<"authorization">>
  ELSE IF name = <<"Content-Type">> THEN <<"content-type">>
  ELSE name

\* the value of the request header called name, None when it is absent
HeaderValueOf(headers, name) ==
  LET ks == {k \in DOMAIN headers : HeaderNameKey(k) = HeaderNameKey(name)}
  IN  IF ks = {} THEN NoneVal ELSE Some(headers[CHOOSE k \in ks : TRUE])

\* Signature recompute state: the string-to-sign rebuilt from a received
\* request and the header names its Authorization header lists
VerifierStringToSign(method, path_and_query, headers, names) ==
  CreateStringToSign(method, path_and_query,
                     [i \in 1..Len(names) |-> HeaderValueOf(headers, names[i]).val])

(***************************************************************************)
(* Properties of the helper methods.                                       *)
(***************************************************************************)
RECURSIVE SemicolonList(_)
\* the texts of a list written one after the other with ";" between them
SemicolonList(l) ==
  IF l = <<>> THEN <<>>
  ELSE IF Len(l) = 1 THEN l[1]
  ELSE SemicolonList(SubSeq(l, 1, Len(l) - 1)) \o <<";">> \o l[Len(l)]

\* thread t has returned from a call of op
Returned(t, op) == th[t].pc = "done" /\ th[t].op = op

\* C1: create_string_to_sign(m, p, hs) is upper(m), a newline, p unchanged,
\* a newline, and the elements of hs unchanged with ";" between them, in the
\* given order; only the method is case-normalised.
C1_StringToSignFormat ==
  \A t \in Threads :
    Returned(t, "create_string_to_sign") =>
      LET m == th[t].method
          p == th[t].path_and_query
          r == th[t].result
          n == Len(m)
          k == Len(p)
      IN  /\ Len(r) >= n + k + 2
          /\ \A i \in 1..n : r[i] = UpperChar(m[i])
          /\ r[n + 1] = "\n"
          /\ SubSeq(r, n + 2, n + k + 1) = p
          /\ r[n + k + 2] = "\n"
          /\ SubSeq(r, n + k + 3, Len(r)) = SemicolonList(th[t].header_values)

\* a lower-case method, a path with lower-case letters and two header values,
\* one of them holding ";", have been canonicalized
C1_Witness ==
  \E t \in Threads :
    /\ Returned(t, "create_string_to_sign")
    /\ th[t].method = <<"g", "e", "t">>
    /\ th[t].path_and_query = <<"/", "a", "?", "q", "=", "1">>
    /\ th[t].header_values = <<(<<"b", ";", "c">>), (<<"a">>)>>

\* C2: calculate_content_hash gives EMPTY_CONTENT_HASH for None and for "",
\* and for a non-empty body base64(SHA-256(body bytes)), which is not
\* EMPTY_CONTENT_HASH.
C2_ContentHash ==
  \A t \in Threads :
    Returned(t, "calculate_content_hash") =>
      LET c == th[t].content
      IN  IF ~c.some \/ c.val = <<>>
          THEN th[t].result = EMPTY_CONTENT_HASH
          ELSE /\ th[t].result = B64Encode(Sha256(Utf8(c.val)))
               /\ th[t].result # EMPTY_CONTENT_HASH

\* the hash of an absent body has been computed
C2_Witness ==
  \E t \in Threads :
    Returned(t, "calculate_content_hash") /\ th[t].content = NoneVal

\* C3: generate_authorization_header gives "HMAC Client=" c "&SignedHeaders="
\* ns joined with ";" "&Signature=" s, the fields in that order and no value
\* encoded or escaped.
C3_AuthorizationFormat ==
  \A t \in Threads :
    Returned(t, "generate_authorization_header") =>
      th[t].result =
        <<"HMAC", " ", "Client", "=">> \o client
          \o <<"&", "SignedHeaders", "=">> \o SemicolonList(th[t].signed_headers)
          \o <<"&", "Signature", "=">> \o th[t].signature

\* a client id, header names and a signature that hold "&", "=" and ";" have
\* been formatted
C3_Witness ==
  \E t \in Threads :
    /\ Returned(t, "generate_authorization_header")
    /\ client = <<"a", "&", "b", "=", "1">>
    /\ th[t].signed_headers = <<(<<"x", "=", "1", "&", "y">>), (<<"b", ";", "c">>)>>
    /\ th[t].signature = <<"s", "+", "/", "=">>

(***************************************************************************)
(* Properties of create_authenticated_headers and request.                 *)
(***************************************************************************)
\* thread t holds the headers create_authenticated_headers returned
Signed(t) ==
  /\ th[t].op \in {"create_authenticated_headers", "request"}
  /\ th[t].pc \in {"req_signed", "done"}

\* C4: the returned mapping has exactly the keys Host, x-timestamp,
\* x-content-sha256 and Authorization, and Content-Type (application/json)
\* exactly when the body is non-empty; for an absent or empty body
\* x-content-sha256 is EMPTY_CONTENT_HASH.
C4_HeaderSet ==
  \A t \in Threads :
    Signed(t) =>
      LET nonempty == th[t].content.some /\ th[t].content.val # <<>>
          base == {<<"Host">>, <<"x-timestamp">>, <<"x-content-sha256">>,
                   <<"Authorization">>}
      IN  /\ DOMAIN th[t].headers =
               base \cup (IF nonempty THEN {<<"Content-Type">>} ELSE {})
          /\ nonempty => th[t].headers[<<"Content-Type">>] = <<"application/json">>
          /\ ~nonempty => th[t].headers[<<"x-content-sha256">>] = EMPTY_CONTENT_HASH

\* headers for a body that is the empty string have been returned
C4_Witness ==
  \E t \in Threads :
    /\ Returned(t, "create_authenticated_headers")
    /\ th[t].content = Some(<<>>)

\* C7: the values signed are [host, timestamp, content hash] in that order,
\* SignedHeaders lists host;x-timestamp;x-content-sha256 in the same order,
\* the Host, x-timestamp and x-content-sha256 headers carry the signed
\* values, and a verifier reading the named headers in the listed order
\* rebuilds the same string-to-sign.
C7_SignedValuesAndNames ==
  \A t \in Threads :
    Signed(t) =>
      LET h == th[t].headers
          auth == ParseAuthorization(h[<<"Authorization">>])
          signed_line == SplitOn(th[t].string_to_sign, "\n")
      IN  /\ Len(signed_line) = 3
          /\ signed_line[3] =
               h[<<"Host">>] \o <<";">> \o h[<<"x-timestamp">>] \o <<";">>
                 \o h[<<"x-content-sha256">>]
          /\ h[<<"Host">>] = th[t].host
          /\ h[<<"x-timestamp">>] = th[t].timestamp
          /\ h[<<"x-content-sha256">>] = th[t].content_hash
          /\ auth.ok
          /\ auth.signed_headers =
               <<(<<"host">>), (<<"x-timestamp">>), (<<"x-content-sha256">>)>>
          /\ auth.signature = th[t].signature
          /\ VerifierStringToSign(th[t].method, th[t].path_and_query, h,
                                  auth.signed_headers) = th[t].string_to_sign

\* a request with a body has been signed and dispatched
C7_Witness ==
  \E t \in Threads :
    /\ Returned(t, "request")
    /\ th[t].content.some
    /\ th[t].timestamp = <<"1", "0">>

\* the path and "?"-prefixed query, without fragment, of a URL as it is
\* handed to the transport
WirePathAndQuery(url) ==
  LET u == UrlSplit(url)
  IN  u.path \o (IF u.query # <<>> THEN <<"?">> \o u.query ELSE <<>>)

\* C8: the path-and-query that request() signs is the path, with the
\* "?"-prefixed query if there is one and without the fragment, of the URL
\* base_url + path handed to the transport.
C8_SignedPathIsWirePath ==
  \A t \in Threads :
    th[t].op = "request" =>
      \A i \in 1..Len(th[t].sent) :
        /\ th[t].sent[i].url = base_url \o th[t].path
        /\ th[t].path_and_query = WirePathAndQuery(th[t].sent[i].url)
        /\ SplitOn(th[t].string_to_sign, "\n")[2] =
             WirePathAndQuery(th[t].sent[i].url)

\* json.dumps of an Optional dict
JsonDumpsOptional(o) == IF o.some THEN JsonDumps(o.val) ELSE <<"null">>

\* the body handed to the transport is the string that was hashed, and the
\* hash it carries is the hash that was signed
BodyIsHashedBody(t, r) ==
  /\ r.data = th[t].content
  /\ r.headers[<<"x-content-sha256">>] =
       (IF r.data.some /\ r.data.val # <<>>
        THEN B64Encode(Sha256(Utf8(r.data.val)))
        ELSE EMPTY_CONTENT_HASH)
  /\ th[t].header_values[3] = r.headers[<<"x-content-sha256">>]
  /\ ParseAuthorization(r.headers[<<"Authorization">>]).signature =
       GenerateSignature(secret,
         CreateStringToSign(th[t].method, th[t].path_and_query,
                            th[t].header_values))

\* C9 as stated: the dispatched body is the serialized string that was
\* hashed and signed; get and delete dispatch no body; post and put dispatch
\* the JSON serialization of the given data (a dictionary, as their
\* signatures ask for).
C9_BodyAsStated ==
  \A t \in Threads :
    th[t].op = "request" =>
      \A i \in 1..Len(th[t].sent) :
        LET r == th[t].sent[i]
        IN  /\ BodyIsHashedBody(t, r)
            /\ th[t].via \in {"get", "delete"} => r.data = NoneVal
            /\ (th[t].via \in {"post", "put"} /\ th[t].json_data.some) =>
                 r.data = Some(JsonDumpsOptional(th[t].json_data))

\* C9, amended: the dispatched body is the serialized string that was hashed
\* and signed; get and delete dispatch no body; post and put dispatch the
\* JSON serialization of the given data when the data is a non-empty dict,
\* and no body when the data is None or an empty dict.
C9_BodyDispatched ==
  \A t \in Threads :
    th[t].op = "request" =>
      \A i \in 1..Len(th[t].sent) :
        LET r == th[t].sent[i]
            d == th[t].json_data
        IN  /\ BodyIsHashedBody(t, r)
            /\ th[t].via \in {"get", "delete"} => r.data = NoneVal
            /\ th[t].via \in {"post", "put"} =>
                 r.data = (IF d.some /\ d.val # <<>>
                           THEN Some(JsonDumps(d.val))
                           ELSE NoneVal)

\* post() has dispatched the serialization of a dict of two entries
C9_Witness ==
  \E t \in Threads :
    /\ Returned(t, "request")
    /\ th[t].via = "post"
    /\ Len(th[t].sent) = 1
    /\ th[t].json_data.some /\ Len(th[t].json_data.val) = 2
    /\ th[t].sent[1].data.some

(***************************************************************************)
(* Properties of signing in parallel (SpecPar).                            *)
(***************************************************************************)
\* C5: two signing runs with the same credential, method, path, host, clock
\* reading and body return identical header mappings, whatever was signed
\* before them.
C5_Deterministic ==
  \A t1, t2 \in Threads :
    ( /\ Signed(t1) /\ Signed(t2)
      /\ th[t1].method = th[t2].method
      /\ th[t1].path = th[t2].path
      /\ th[t1].content = th[t2].content
      /\ th[t1].now = th[t2].now )
    => th[t1].headers = th[t2].headers

\* two threads hold headers for the same inputs and clock reading, and the
\* clock has advanced since they read it
C5_Witness ==
  \E t1, t2 \in Threads :
    /\ t1 # t2
    /\ Signed(t1) /\ Signed(t2)
    /\ th[t1].method = th[t2].method
    /\ th[t1].path = th[t2].path
    /\ th[t1].content = th[t2].content
    /\ th[t1].content.some
    /\ th[t1].now = th[t2].now
    /\ Timestamp(clock) # th[t1].timestamp

\* C10: no step of a signing or request call writes the client id, the
\* secret or the base URL, and under every interleaving each call holds the
\* headers it returns when run alone with the same inputs and clock reading.
C10_NoLocksNeeded ==
  [][ /\ client' = client
      /\ secret' = secret
      /\ base_url' = base_url
      /\ \A t \in Threads :
           Signed(t)' =>
             th'[t].headers =
               CreateAuthenticatedHeaders(client', secret', base_url',
                                          th'[t].method, th'[t].path,
                                          th'[t].content, th'[t].now) ]_vars

\* one thread holds its headers while another, which read the clock at a
\* different time for a different request, is in the middle of signing
C10_Witness ==
  \E t1, t2 \in Threads :
    /\ t1 # t2
    /\ Signed(t1)
    /\ th[t2].pc = "cah_canon"
    /\ th[t1].content # th[t2].content
    /\ th[t1].now > th[t2].now

(***************************************************************************)
(* A request that is changed on its way to the verifier (SpecTamper).      *)
(***************************************************************************)
DecimalDigits == {"0", "1", "2", "3", "4", "5", "6", "7", "8", "9"}

\* the verifier's states, run to the end: Parse, Lookup, Freshness check,
\* Content-hash check, Signature recompute, Accept.  No tolerance window is
\* configured, so a timestamp that is a number is fresh; what the freshness
\* check does with a timestamp that is not a number is not laid down: a
\* strict verifier fails with StaleRequest, another goes on
Verify(method, path_and_query, headers, body, strict) ==
  LET a == HeaderValueOf(headers, <<"Authorization">>)
      auth == ParseAuthorization(a.val)
      ts == HeaderValueOf(headers, TIME_STAMP_HEADER_NAME)
      hash == HeaderValueOf(headers, CONTENT_HASH_HEADER_NAME)
  IN  IF ~a.some \/ ~auth.ok THEN "MalformedAuthHeader"
      ELSE IF auth.client # client THEN "UnknownClient"
      ELSE IF ~ts.some THEN "StaleRequest"
      ELSE IF strict /\ ( \/ ts.val = <<>>
                          \/ \E i \in 1..Len(ts.val) : ts.val[i] \notin DecimalDigits )
        THEN "StaleRequest"
      ELSE IF ~hash.some \/ hash.val # B64Encode(Sha256(body))
        THEN "BodyTampered"
      ELSE IF auth.signature #
                GenerateSignature(secret,
                  VerifierStringToSign(method, path_and_query, headers,
                                       auth.signed_headers))
        THEN "SignatureMismatch"
      ELSE "Accept"

\* the bytes of a request body; no body is the empty byte sequence
BodyBytes(content) == IF content.some THEN Utf8(content.val) ELSE <<>>

\* what an intermediary may put in place of a part of the request
TamperMethods == { <<"G", "E", "T">>, <<"g", "e", "t">>, <<"P", "O", "S", "T">> }
TamperPaths == { <<"/", "a">>, <<"/", "a", "?", "q", "=", "1">>, <<"/", "b">> }
TamperHosts == { <<"h">>, <<"evil", ".", "com">> }
TamperTimestamps == { <<"0">>, <<"1", "0">>, <<"1", ";", "9">> }
TamperBodies == { <<>>, <<"{", "}">> }

\* the caller of create_authenticated_headers sends the request it signed
\* and waits; the request reaches the verifier with the given method, path
\* and query, Host, x-timestamp and body; the verifier decides
Receive(t, method, path_and_query, host, timestamp, body, strict) ==
  /\ rx.state = "none"
  /\ Returned(t, "create_authenticated_headers")
  /\ LET headers == (<<"Host">> :> host) @@ (TIME_STAMP_HEADER_NAME :> timestamp)
                    @@ th[t].headers
     IN  rx' = [state |-> "verified",
                method |-> method, path_and_query |-> path_and_query,
                headers |-> headers, body |-> body,
                verdict |-> Verify(method, path_and_query, headers, body, strict)]
  /\ th' = [th EXCEPT ![t].pc = "awaiting"]
  /\ UNCHANGED <<fields, clock>>

\* the verifier's answer reaches the caller
Respond(t) ==
  /\ rx.state = "verified"
  /\ th[t].pc = "awaiting"
  /\ rx' = NoRequest
  /\ th' = [th EXCEPT ![t].pc = "done", ![t].response = rx.verdict]
  /\ UNCHANGED <<fields, clock>>

TamperCtorArgs ==
  { [client |-> <<"TestClient">>, secret |-> <<"test-secret">>,
     base_url |-> <<"https", ":", "/", "/", "api", ".", "example", ".", "com">>],
    [client |-> <<"TestClient">>, secret |-> <<"test-secret">>,
     base_url |-> <<"https", ":", "/", "/", "h", ";", "1">>] }

InitTamper == Construct(TamperCtorArgs)

NextTamper ==
  \/ Tick
  \/ \E m \in {<<"G", "E", "T">>, <<"P", "o", "s", "t">>},
        p \in {<<"/", "a">>, <<"/", "a", "?", "q", "=", "1">>},
        c \in {NoneVal, Some(<<"{", "}">>)} :
       CallCreateAuthenticatedHeaders(Main, m, p, c)
  \/ ParseUrl(Main)
  \/ ReadClock(Main)
  \/ Canonicalize(Main)
  \/ Sign(Main)
  \/ Authorize(Main)
  \/ Return(Main)
  \/ \E m \in TamperMethods \cup {th[Main].method},
        p \in TamperPaths \cup {th[Main].path_and_query},
        h \in TamperHosts \cup {th[Main].host},
        ts \in TamperTimestamps \cup {th[Main].timestamp},
        b \in TamperBodies \cup {BodyBytes(th[Main].content)},
        strict \in BOOLEAN :
       Receive(Main, m, p, h, ts, b, strict)
  \/ Respond(Main)

SpecTamper == InitTamper /\ [][NextTamper]_vars

\* the verifier has decided a request that thread t signed
Verified(t) == rx.state = "verified" /\ th[t].pc = "awaiting"

\* the parts of the received request that differ from what thread t signed
MethodChanged(t) == rx.method # th[t].method
MethodCaseOnly(t) == Upper(rx.method) = Upper(th[t].method)
PathChanged(t) == rx.path_and_query # th[t].path_and_query
HostChanged(t) == rx.headers[<<"Host">>] # th[t].host
TimestampChanged(t) == rx.headers[<<"x-timestamp">>] # th[t].timestamp
BodyChanged(t) == rx.body # BodyBytes(th[t].content)

\* C6: when the body, the path, the method, the host or the timestamp of a
\* signed request is changed after signing, the verifier rejects the request
\* with SignatureMismatch or BodyTampered.
C6_TamperRejected ==
  \A t \in Threads :
    ( /\ Verified(t)
      /\ \/ MethodChanged(t) \/ PathChanged(t) \/ HostChanged(t)
         \/ TimestampChanged(t) \/ BodyChanged(t) )
    => rx.verdict \in {"SignatureMismatch", "BodyTampered"}

\* the weaker statement that a changed request is rejected with any error
TamperNeverAccepted ==
  \A t \in Threads :
    ( /\ Verified(t)
      /\ \/ MethodChanged(t) \/ PathChanged(t) \/ HostChanged(t)
         \/ TimestampChanged(t) \/ BodyChanged(t) )
    => rx.verdict # "Accept"

\* what the signature does bind: a request that is accepted has the signed
\* body and the signed canonical text, and the request as signed is accepted
AcceptedIsSignedText ==
  \A t \in Threads :
    Verified(t) =>
      /\ rx.verdict = "Accept" =>
           /\ ~BodyChanged(t)
           /\ CreateStringToSign(rx.method, rx.path_and_query,
                <<rx.headers[<<"Host">>], rx.headers[<<"x-timestamp">>],
                  rx.headers[<<"x-content-sha256">>]>>) = th[t].string_to_sign
      /\ ( /\ ~MethodChanged(t) /\ ~PathChanged(t) /\ ~HostChanged(t)
           /\ ~TimestampChanged(t) /\ ~BodyChanged(t) )
         => rx.verdict = "Accept"

\* a request signed for a host that holds ";" is accepted with another Host
\* and another x-timestamp that join to the text that was signed
HostTimestampResplitAccepted ==
  \E t \in Threads :
    /\ Verified(t)
    /\ rx.verdict = "Accept"
    /\ HostChanged(t) /\ TimestampChanged(t)
    /\ ~PathChanged(t) /\ ~BodyChanged(t) /\ ~MethodChanged(t)

(***************************************************************************)
(* The timestamp.                                                          *)
(***************************************************************************)
\* the number a decimal digit stands for
DigitValue(c) == CHOOSE d \in 0..9 : ToString(d) = c

RECURSIVE DecimalValue(_)
\* the number a sequence of decimal digits stands for
DecimalValue(s) ==
  IF s = <<>> THEN 0
  ELSE 10 * DecimalValue(SubSeq(s, 1, Len(s) - 1)) + DigitValue(s[Len(s)])

\* s is a natural number written in decimal digits, with no sign, no
\* fraction and no leading zero
IsDecimal(s) ==
  /\ s # <<>>
  /\ \A i \in 1..Len(s) : s[i] \in DecimalDigits
  /\ Len(s) > 1 => s[1] # "0"

\* C11: x-timestamp is the clock reading of the signing call reduced to
\* whole seconds (the clock is counted in half seconds, so a reading of n
\* and of n + 1/2 seconds both give n), written in decimal digits with no
\* fractional part, and this same string is the timestamp bound into the
\* signature.
C11_TimestampWholeSeconds ==
  \A t \in Threads :
    Signed(t) =>
      LET ts == th[t].headers[TIME_STAMP_HEADER_NAME]
      IN  /\ IsDecimal(ts)
          /\ 2 * DecimalValue(ts) <= th[t].now
          /\ th[t].now < 2 * DecimalValue(ts) + 2
          /\ th[t].header_values[2] = ts
          /\ th[t].string_to_sign =
               Upper(th[t].method) \o <<"\n">> \o th[t].path_and_query
                 \o <<"\n">> \o th[t].host \o <<";">> \o ts \o <<";">>
                 \o th[t].content_hash
          /\ th[t].signature =
               B64Encode(HmacSha256(secret, Utf8(th[t].string_to_sign)))

\* a call signed at a clock reading with a fraction of a second, giving a
\* timestamp of two digits
C11_Witness ==
  \E t \in Threads :
    /\ Signed(t)
    /\ th[t].now % 2 = 1
    /\ th[t].now > ClockStart
    /\ Len(th[t].headers[TIME_STAMP_HEADER_NAME]) = 2

(***************************************************************************)
(* One dispatch per request.                                               *)
(***************************************************************************)
\* C12: every call of request(method, path, data) dispatches exactly one
\* transport request, after the headers have been computed, with the method
\* upper-cased (the verb that was signed), the URL base_url + path and the
\* headers create_authenticated_headers produced for that call; the
\* transport's response is returned unchanged; nothing is dispatched twice.
C12_OneDispatch ==
  \A t \in Threads :
    th[t].op = "request" =>
      /\ th[t].pc # "done" => th[t].sent = <<>>
      /\ th[t].pc = "done" =>
           /\ Len(th[t].sent) = 1
           /\ th[t].sent[1].method = Upper(th[t].method)
           /\ SubSeq(th[t].string_to_sign, 1, Len(th[t].method) + 1) =
                th[t].sent[1].method \o <<"\n">>
           /\ th[t].sent[1].url = base_url \o th[t].path
           /\ th[t].sent[1].headers = th[t].headers
           /\ th[t].sent[1].headers =
                CreateAuthenticatedHeaders(client, secret, base_url,
                                           th[t].method, th[t].path,
                                           th[t].content, th[t].now)
           /\ th[t].response \in Responses
           /\ th[t].result = th[t].response

\* a request made with a lower-case verb has been answered with 401
C12_Witness ==
  \E t \in Threads :
    /\ Returned(t, "request")
    /\ th[t].method = <<"g", "e", "t">>
    /\ th[t].response = "401"
    /\ Len(th[t].sent) = 1

(***************************************************************************)
(* Certificate verification.                                               *)
(***************************************************************************)
\* the host of a network location: what follows the user information and
\* precedes the port, lower-cased
Hostname(netloc) ==
  LET hostport == SplitAt(netloc, RFind(netloc, {"@"}))
      h == IF RFind(netloc, {"@"}) = 0 THEN netloc ELSE hostport.tail
  IN  Lower(SplitAt(h, Find(h, {":"})).head)

LocalHosts == { <<"localhost">>, <<"127.0.0.1">> }

\* C13: certificate verification is off exactly when the host of the base
\* URL is localhost or 127.0.0.1; it stays on for every other host.
C13_VerifyOffOnlyForLocalHost ==
  verify = (Hostname(UrlParse(base_url).netloc) \notin LocalHosts)

\* what the constructor does: verification is off exactly when the text of
\* the base URL holds "localhost" or "127.0.0.1" anywhere
VerifyOffWhenTextHoldsLocalName ==
  verify = ~( \/ Contains(base_url, <<"localhost">>)
              \/ Contains(base_url, <<"127.0.0.1">>) )

\* a client for a host that is not local, with verification off
VerifyOffForRemoteHost ==
  /\ ~verify
  /\ Hostname(UrlParse(base_url).netloc) = <<"localhost", ".", "evil", ".", "com">>

(***************************************************************************)
(* The join delimiter is not escaped.                                      *)
(***************************************************************************)
\* some header value of the list holds ";"
HoldsSemicolon(hs) == \E i \in 1..Len(hs) : \E j \in 1..Len(hs[i]) : hs[i][j] = ";"

\* the header values of the list, cut at every ";" inside them
CutAtSemicolons(hs) == SplitOn(Join(<<";">>, hs), ";")

\* C14: create_string_to_sign does not escape ";": whenever a header value
\* holds ";" there is another ordered list of header values (the values cut
\* at the ";", and for ["a;b", "c"] also ["a", "b;c"]) that, with the same
\* method and path, has the same string-to-sign and so the same signature.
C14_JoinIsAmbiguous ==
  \A t \in Threads :
    ( Returned(t, "create_string_to_sign") /\ HoldsSemicolon(th[t].header_values) )
    => LET m == th[t].method
           p == th[t].path_and_query
           hs == th[t].header_values
           other == CutAtSemicolons(hs)
       IN  /\ other # hs
           /\ CreateStringToSign(m, p, other) = th[t].result
           /\ GenerateSignature(secret, CreateStringToSign(m, p, other)) =
                GenerateSignature(secret, th[t].result)
           /\ hs = <<(<<"a", ";", "b">>), (<<"c">>)>> =>
                /\ CreateStringToSign(m, p, <<(<<"a">>), (<<"b", ";", "c">>)>>) =
                     th[t].result
                /\ GenerateSignature(secret,
                     CreateStringToSign(m, p, <<(<<"a">>), (<<"b", ";", "c">>)>>)) =
                     GenerateSignature(secret, th[t].result)

\* the header values ["a;b", "c"] have been canonicalized
C14_Witness ==
  \E t \in Threads :
    /\ Returned(t, "create_string_to_sign")
    /\ th[t].header_values = <<(<<"a", ";", "b">>), (<<"c">>)>>
    /\ th[t].result = CreateStringToSign(th[t].method, th[t].path_and_query,
                                         <<(<<"a">>), (<<"b", ";", "c">>)>>)

(***************************************************************************)
(* Empty JSON data.                                                        *)
(***************************************************************************)
\* thread t is in request(), post() or put() with None or an empty dict
EmptyData(t) ==
  /\ th[t].op = "request"
  /\ th[t].via \in {"request", "post", "put"}
  /\ th[t].json_data \in {NoneVal, Some(<<>>)}

\* C15: request(), post() and put() called with None or with an empty
\* dictionary treat the data as no data: no body is handed to the transport,
\* x-content-sha256 is EMPTY_CONTENT_HASH, there is no Content-Type header,
\* the headers are those of a request with no data, and the text "{}" is
\* neither signed nor dispatched.
C15_EmptyDataIsNoData ==
  \A t \in Threads :
    EmptyData(t) =>
      /\ th[t].content = NoneVal
      /\ Signed(t) =>
           /\ th[t].headers[CONTENT_HASH_HEADER_NAME] = EMPTY_CONTENT_HASH
           /\ th[t].headers[CONTENT_HASH_HEADER_NAME] #
                B64Encode(Sha256(Utf8(<<"{", "}">>)))
           /\ <<"Content-Type">> \notin DOMAIN th[t].headers
           /\ th[t].header_values[3] = EMPTY_CONTENT_HASH
           /\ th[t].headers =
                CreateAuthenticatedHeaders(client, secret, base_url,
                                           th[t].method, th[t].path, NoneVal,
                                           th[t].now)
      /\ \A i \in 1..Len(th[t].sent) :
           /\ th[t].sent[i].data = NoneVal
           /\ th[t].sent[i].headers = th[t].headers
      /\ th[t].pc = "done" => Len(th[t].sent) = 1

\* post() called with an empty dictionary has dispatched its request
C15_Witness ==
  \E t \in Threads :
    /\ Returned(t, "request")
    /\ th[t].via = "post"
    /\ th[t].json_data = Some(<<>>)
    /\ Len(th[t].sent) = 1
    /\ th[t].sent[1].data = NoneVal

====
